---- MODULE Spec2Model ----
(***************************************************************************)
(* GradualKSModifier (neuralmagicML/pytorch/recal/kernel/modifier.py) and  *)
(* ScheduledModifierManager (sparseml/keras/optim/manager.py).             *)
(*                                                                         *)
(* Numbers.  Epochs are counted in ticks, TicksPerEpoch ticks to the       *)
(* epoch, so that fractional epochs exist.  Sparsities are exact           *)
(* rationals <<n, d>> in lowest terms with d > 0; <<0, 0>> is None.        *)
(***************************************************************************)
EXTENDS Integers, Sequences, FiniteSets, TLC

\* ------------------------------------------------------------------ bounds
NumElems == 2
MaxTick == 4
MaxInits == 2
TicksPerEpoch == 2

\* ------------------------------------------------------------- rationals
None == <<0, 0>>

Abs(x) == IF x < 0 THEN -x ELSE x

RECURSIVE Gcd(_, _)
Gcd(a, b) == IF b = 0 THEN a ELSE Gcd(b, a % b)

Rat(n, d) ==
    LET s == IF d < 0 THEN -1 ELSE 1
        g == Gcd(Abs(n), Abs(d))
    IN  <<(s * n) \div g, (s * d) \div g>>

RAdd(p, q) == Rat(p[1] * q[2] + q[1] * p[2], p[2] * q[2])
RSub(p, q) == Rat(p[1] * q[2] - q[1] * p[2], p[2] * q[2])
RMul(p, q) == Rat(p[1] * q[1], p[2] * q[2])
RLt(p, q) == p[1] * q[2] < q[1] * p[2]
RLeq(p, q) == p[1] * q[2] <= q[1] * p[2]

\* Python's round(): to the nearest integer, a half to the even neighbour
Round(n, d) ==
    LET q == n \div d
        r == n % d
    IN  IF 2 * r < d THEN q
        ELSE IF 2 * r > d THEN q + 1
        ELSE IF q % 2 = 0 THEN q ELSE q + 1

\* ----------------------------------------------------------- interpolate
INTERPOLATION_FUNCS == {"linear", "cubic", "inverse_cubic"}

\* interpolate(x_cur, x0, x1, y0, y1, inter_func): x in ticks, y rational.
\* Clamped: x <= x0 gives y0 and x >= x1 gives y1; in between, the curve at
\* t = (x - x0) / (x1 - x0).  On an empty interval (x1 = x0) t is 1, so that
\* x = x0 = x1 gives y1.
interpolate(x, x0, x1, y0, y1, inter_func) ==
    IF x1 = x0 THEN (IF x < x0 THEN y0 ELSE y1)
    ELSE IF x <= x0 THEN y0
    ELSE IF x >= x1 THEN y1
    ELSE LET t == Rat(x - x0, x1 - x0)
             u == RSub(<<1, 1>>, t)
             f == CASE inter_func = "linear" -> t
                    [] inter_func = "cubic" -> RMul(t, RMul(t, t))
                    [] inter_func = "inverse_cubic" ->
                           RSub(<<1, 1>>, RMul(u, RMul(u, u)))
         IN  RAdd(y0, RMul(f, RSub(y1, y0)))

\* ------------------------------------------------------ ModuleParamKSMask
\* position i precedes position j in the magnitude ranking of tensor w:
\* smaller absolute value first, equal magnitudes in index order
RanksBefore(w, i, j) ==
    \/ Abs(w[i]) < Abs(w[j])
    \/ Abs(w[i]) = Abs(w[j]) /\ i < j

Rank(w, j) == Cardinality({i \in DOMAIN w : RanksBefore(w, i, j)})

\* number of elements to mask at a sparsity: round(sparsity * element_count)
MaskCount(sparsity, count) == Round(sparsity[1] * count, sparsity[2])

\* the mask set_param_mask_from_sparsity computes: the set of masked (zeroed)
\* positions, the MaskCount lowest of the ranking
mask_from_sparsity(w, sparsity) ==
    {j \in DOMAIN w : Rank(w, j) < MaskCount(sparsity, Len(w))}

\* ModuleParamKSMask.apply on tensor w: zero the masked positions; nothing
\* when the mask is not enabled
apply(w, mask, enabled) ==
    IF enabled THEN [j \in DOMAIN w |-> IF j \in mask THEN 0 ELSE w[j]]
    ELSE w

\* --------------------------------------------------------------- the module
ALL_TOKEN == <<"__ALL__">>

\* get_terminal_layers(module): the layers of the module, in module order.
\* "net" and "biased" are two-layer networks, "wide" is one layer of a
\* hundred weights.
get_terminal_layers(net) ==
    CASE net \in {"net", "biased"} -> <<"conv1", "fc">>
      [] net = "wide" -> <<"dense">>

\* layer.named_parameters(): only the fc layer of "biased" has a bias
named_parameters(net, layer) ==
    IF net = "biased" /\ layer = "fc" THEN <<"weight", "bias">>
    ELSE <<"weight">>

ParamKeys(net, layer) ==
    {<<layer, named_parameters(net, layer)[k]>> :
        k \in DOMAIN named_parameters(net, layer)}

\* the parameter tensors of the module
TensorKeys(net) ==
    UNION {ParamKeys(net, get_terminal_layers(net)[i]) :
             i \in DOMAIN get_terminal_layers(net)}

TensorSize(key) ==
    CASE key = <<"conv1", "weight">> -> NumElems
      [] key = <<"fc", "weight">> -> 1
      [] key = <<"fc", "bias">> -> 1
      [] key = <<"dense", "weight">> -> 100

WeightVals == {-1, 0, 2}

\* ------------------------------------------------------------------- state
VARIABLES
    module,                \* the network under training
    modifier,              \* "absent", "live" (constructed), "failed"
    raised,                \* the error the last call raised, "none" if none
    cfg,                   \* the constructor's arguments as stored
    initialized,           \* Modifier._initialized
    started, ended,        \* the schedule's start and end edges have passed
    module_masks,          \* _module_masks: <<[layer, param, mask, enabled]>>
    analyzers,             \* _analyzers: NoAnalyzers (None) or <<[layer, name, param]>>
    applied_sparsity,      \* _applied_sparsity
    last_logged_sparsity,  \* _last_logged_sparsity
    tensors,               \* the module's live parameter tensors
    events,                \* the log_scalar calls of the last log_update
    inits,                 \* number of initialize() calls so far
    hist,                  \* the last call, and whether it zeroed a moved weight
    manager                \* the ScheduledModifierManager, NoManager if none

vars == <<module, modifier, raised, cfg, initialized, started, ended, module_masks,
          analyzers, applied_sparsity, last_logged_sparsity, tensors, events,
          inits, hist, manager>>

NoAnalyzers == <<[layer |-> "None", name |-> "None", param |-> "None"]>>

NoCfg ==
    [param |-> "", layers |-> <<>>, init_sparsity |-> None,
     final_sparsity |-> None, start_epoch |-> 0, end_epoch |-> 0,
     update_frequency |-> 0, leave_enabled |-> TRUE, inter_func |-> "",
     param_strict |-> TRUE, init_float |-> TRUE, final_float |-> TRUE]

\* hist: op is the last call; epoch is the epoch of an update() or
\* log_update() call and spe the steps_per_epoch of a log_update() call; start
\* and end are whether an update() took the start and the end edge, again
\* whether it came right after an update() at the same epoch; rezeroed is
\* whether an optimizer_post_step() had a moved weight to zero
Hist(op) ==
    [op |-> op, epoch |-> 0, spe |-> 0, start |-> FALSE, end |-> FALSE,
     again |-> FALSE, rezeroed |-> FALSE]

NoHist == Hist("none")

\* no manager has been constructed
NoManager ==
    [state |-> "absent", modifiers |-> <<>>, optimizer |-> <<"None">>,
     calls |-> <<>>, returned |-> <<>>, raised |-> "none"]

\* the weights the network starts from: mixed signs and magnitudes, with ties
InitTensor(key) ==
    [j \in 1..TensorSize(key) |->
       CASE j % 3 = 1 -> 2 [] j % 3 = 2 -> -1 [] OTHER -> IF j % 2 = 0 THEN 0 ELSE -2]

InitWith(net) ==
    /\ module = net
    /\ modifier = "absent"
    /\ raised = "none"
    /\ cfg = NoCfg
    /\ initialized = FALSE
    /\ started = FALSE
    /\ ended = FALSE
    /\ module_masks = <<>>
    /\ analyzers = NoAnalyzers
    /\ applied_sparsity = None
    /\ last_logged_sparsity = None
    /\ tensors = [key \in TensorKeys(net) |-> InitTensor(key)]
    /\ events = <<>>
    /\ inits = 0
    /\ hist = NoHist
    /\ manager = NoManager

Init == InitWith("net")

\* ---------------------------------------------------------------- __init__
\* mutant of ConstructError: the range check of final_sparsity tests
\* init_sparsity a second time
ConstructErrorNoFinalRange(a) ==
    IF a.start_epoch < 0 THEN "ValueError: start_epoch"
    ELSE IF a.end_epoch < a.start_epoch THEN "ValueError: end_epoch"
    ELSE IF ~a.init_float THEN "TypeError: init_sparsity"
    ELSE IF RLt(a.init_sparsity, <<0, 1>>) \/ RLt(<<1, 1>>, a.init_sparsity)
        THEN "ValueError: init_sparsity"
    ELSE IF ~a.final_float THEN "TypeError: final_sparsity"
    ELSE IF RLt(a.init_sparsity, <<0, 1>>) \/ RLt(<<1, 1>>, a.init_sparsity)
        THEN "ValueError: final_sparsity"
    ELSE IF a.inter_func \notin INTERPOLATION_FUNCS THEN "ValueError: inter_func"
    ELSE "none"

\* the checks of __init__ in source order; the first that fails raises
ConstructError(a) ==
    IF a.start_epoch < 0 THEN "ValueError: start_epoch"
    ELSE IF a.end_epoch < a.start_epoch THEN "ValueError: end_epoch"
    ELSE IF ~a.init_float THEN "TypeError: init_sparsity"
    ELSE IF RLt(a.init_sparsity, <<0, 1>>) \/ RLt(<<1, 1>>, a.init_sparsity)
        THEN "ValueError: init_sparsity"
    ELSE IF ~a.final_float THEN "TypeError: final_sparsity"
    ELSE IF RLt(a.final_sparsity, <<0, 1>>) \/ RLt(<<1, 1>>, a.final_sparsity)
        THEN "ValueError: final_sparsity"
    ELSE IF a.inter_func \notin INTERPOLATION_FUNCS THEN "ValueError: inter_func"
    ELSE "none"

\* GradualKSModifier(**a): the fields are assigned first, then validated; a
\* raising constructor leaves the caller without a modifier
Construct(a) ==
    /\ modifier = "absent"
    /\ cfg' = a
    /\ module_masks' = <<>>
    /\ applied_sparsity' = None
    /\ last_logged_sparsity' = None
    /\ analyzers' = NoAnalyzers
    /\ raised' = ConstructError(a)
    /\ modifier' = IF ConstructError(a) = "none" THEN "live" ELSE "failed"
    /\ hist' = Hist("construct")
    /\ UNCHANGED <<module, initialized, started, ended, tensors, events, inits,
                   manager>>

\* -------------------------------------------------------------- initialize
\* the names of a selection without repeats, first occurrences in order: the
\* keys of {name: get_layer(name, module) for name in self._layers}
RECURSIVE DictKeys(_)
DictKeys(names) ==
    IF names = <<>> THEN <<>>
    ELSE LET front == DictKeys(SubSeq(names, 1, Len(names) - 1))
             x == names[Len(names)]
         IN  IF \E i \in DOMAIN front : front[i] = x THEN front
             ELSE Append(front, x)

\* layers resolved by initialize: every terminal layer, or the named ones
ResolvedLayers(c) ==
    IF c.layers = ALL_TOKEN THEN get_terminal_layers(module)
    ELSE DictKeys(c.layers)

HasParam(layer, param) ==
    \E i \in DOMAIN named_parameters(module, layer) :
        named_parameters(module, layer)[i] = param

\* mutant of InitLoop: strict mode raises under the wildcard selection too
RECURSIVE InitLoopStrictWildcard(_, _, _, _)
InitLoopStrictWildcard(c, layers, i, st) ==
    IF i > Len(layers) THEN st
    ELSE LET layer == layers[i]
             found == HasParam(layer, c.param)
             st1 == IF found
                    THEN [st EXCEPT
                            !.masks = Append(@, [layer |-> layer, param |-> c.param,
                                                 mask |-> {}, enabled |-> FALSE]),
                            !.analyzers = Append(@, [layer |-> layer, name |-> layer,
                                                     param |-> c.param])]
                    ELSE st
         IN  IF c.param_strict /\ ~found
             THEN [st1 EXCEPT !.raised = "ValueError: param"]
             ELSE InitLoopStrictWildcard(c, layers, i + 1, st1)

\* the loop of initialize over layers[i..]: st = [masks, analyzers, raised]
RECURSIVE InitLoop(_, _, _, _)
InitLoop(c, layers, i, st) ==
    IF i > Len(layers) THEN st
    ELSE LET layer == layers[i]
             found == HasParam(layer, c.param)
             st1 == IF found
                    THEN [st EXCEPT
                            !.masks = Append(@, [layer |-> layer, param |-> c.param,
                                                 mask |-> {}, enabled |-> FALSE]),
                            !.analyzers = Append(@, [layer |-> layer, name |-> layer,
                                                     param |-> c.param])]
                    ELSE st
         IN  IF c.param_strict /\ c.layers # ALL_TOKEN /\ ~found
             THEN [st1 EXCEPT !.raised = "ValueError: param"]
             ELSE InitLoop(c, layers, i + 1, st1)

Initialize ==
    /\ modifier = "live"
    /\ LET st == InitLoop(cfg, ResolvedLayers(cfg), 1,
                          [masks |-> module_masks, analyzers |-> <<>>,
                           raised |-> "none"])
       IN  /\ module_masks' = st.masks
           /\ analyzers' = st.analyzers
           /\ raised' = st.raised
    /\ initialized' = TRUE
    /\ inits' = inits + 1
    /\ events' = <<>>
    /\ hist' = Hist("initialize")
    /\ UNCHANGED <<module, modifier, cfg, started, ended, applied_sparsity,
                   last_logged_sparsity, tensors,
                   manager>>

\* ------------------------------------------------- ScheduledUpdateModifier
\* the epoch, quantized to the training step it falls in, is at or past the
\* bound: floor(epoch * steps_per_epoch) / steps_per_epoch >= bound; the
\* epochs themselves are compared when no step rate is known
AtOrPast(tick, bound, spe) ==
    IF spe <= 0 THEN tick >= bound
    ELSE ((tick * spe) \div TicksPerEpoch) * TicksPerEpoch >= bound * spe

\* start_pending(epoch, steps_per_epoch): the start edge has not been taken
\* and the epoch has reached start_epoch
start_pending(epoch, spe) == ~started /\ AtOrPast(epoch, cfg.start_epoch, spe)

\* end_pending(epoch, steps_per_epoch)
end_pending(epoch, spe) == ~ended /\ AtOrPast(epoch, cfg.end_epoch, spe)

\* ------------------------------------------------------------------ update
\* mutants of EnabledAfterEdges: the start block missing; the end block run
\* before the start block; the end block ignoring leave_enabled
EnabledAfterEdgesNoStart(enabled, sp, ep) ==
    IF ep /\ ~cfg.leave_enabled THEN FALSE ELSE enabled

EnabledAfterEdgesEndFirst(enabled, sp, ep) ==
    LET e1 == IF ep /\ ~cfg.leave_enabled THEN FALSE ELSE enabled
    IN  IF sp THEN TRUE ELSE e1

EnabledAfterEdgesAlwaysDisable(enabled, sp, ep) ==
    LET e1 == IF sp THEN TRUE ELSE enabled
    IN  IF ep THEN FALSE ELSE e1

\* mask.enabled after the two edge blocks of update
EnabledAfterEdges(enabled, sp, ep) ==
    LET e1 == IF sp THEN TRUE ELSE enabled
    IN  IF ep /\ ~cfg.leave_enabled THEN FALSE ELSE e1

\* mask.set_param_mask_from_sparsity(sparsity) on the live tensors: the mask
\* is recomputed from the current magnitudes and, when the mask is enabled,
\* applied to the tensor
set_param_mask_from_sparsity(m, tens, sparsity) ==
    LET key == <<m.layer, m.param>>
        mk == mask_from_sparsity(tens[key], sparsity)
    IN  [m |-> [m EXCEPT !.mask = mk],
         tensors |-> [tens EXCEPT ![key] = apply(tens[key], mk, m.enabled)]]

\* mutant of SetMasksLoop: the loop leaves out the first mask
RECURSIVE SetMasksLoopSkipFirst(_, _, _, _)
SetMasksLoopSkipFirst(masks, i, tens, sparsity) ==
    IF i > Len(masks) THEN [masks |-> masks, tensors |-> tens]
    ELSE LET r == IF i = 1 THEN [m |-> masks[i], tensors |-> tens]
                  ELSE set_param_mask_from_sparsity(masks[i], tens, sparsity)
         IN  SetMasksLoopSkipFirst([masks EXCEPT ![i] = r.m], i + 1, r.tensors,
                                   sparsity)

\* for mask in self._module_masks: mask.set_param_mask_from_sparsity(...)
RECURSIVE SetMasksLoop(_, _, _, _)
SetMasksLoop(masks, i, tens, sparsity) ==
    IF i > Len(masks) THEN [masks |-> masks, tensors |-> tens]
    ELSE LET r == set_param_mask_from_sparsity(masks[i], tens, sparsity)
         IN  SetMasksLoop([masks EXCEPT ![i] = r.m], i + 1, r.tensors, sparsity)

\* mutants of NewAppliedSparsity: no recomputation once past end_epoch; the
\* two sparsities swapped
NewAppliedSparsityStale(epoch) ==
    IF applied_sparsity # None /\ epoch > cfg.end_epoch THEN applied_sparsity
    ELSE interpolate(epoch, cfg.start_epoch, cfg.end_epoch, cfg.init_sparsity,
                     cfg.final_sparsity, cfg.inter_func)

NewAppliedSparsitySwapped(epoch) ==
    interpolate(epoch, cfg.start_epoch, cfg.end_epoch, cfg.final_sparsity,
                cfg.init_sparsity, cfg.inter_func)

\* mutant of NewAppliedSparsity: inter_func is not passed on, the curve is
\* interpolate's default
NewAppliedSparsityLinear(epoch) ==
    interpolate(epoch, cfg.start_epoch, cfg.end_epoch, cfg.init_sparsity,
                cfg.final_sparsity, "linear")

\* mutant of NewAppliedSparsity: the curve starts from the sparsity applied
\* so far instead of init_sparsity
NewAppliedSparsityFromCurrent(epoch) ==
    interpolate(epoch, cfg.start_epoch, cfg.end_epoch,
                IF applied_sparsity = None THEN cfg.init_sparsity
                ELSE applied_sparsity,
                cfg.final_sparsity, cfg.inter_func)

\* mutant of NewAppliedSparsity: the curve is read at the last multiple of
\* update_frequency at or before the epoch
NewAppliedSparsityByFrequency(epoch) ==
    interpolate(IF cfg.update_frequency > 0
                THEN epoch - (epoch % cfg.update_frequency) ELSE epoch,
                cfg.start_epoch, cfg.end_epoch, cfg.init_sparsity,
                cfg.final_sparsity, cfg.inter_func)

\* self._applied_sparsity = interpolate(epoch, start, end, init, final, func)
NewAppliedSparsity(epoch) ==
    interpolate(epoch, cfg.start_epoch, cfg.end_epoch, cfg.init_sparsity,
                cfg.final_sparsity, cfg.inter_func)

Update(epoch, spe) ==
    /\ modifier = "live"
    /\ initialized
    /\ LET sp == start_pending(epoch, spe)
           ep == end_pending(epoch, spe)
           edged == [i \in DOMAIN module_masks |->
                       [module_masks[i] EXCEPT
                          !.enabled = EnabledAfterEdges(@, sp, ep)]]
           sparsity == NewAppliedSparsity(epoch)
           r == SetMasksLoop(edged, 1, tensors, sparsity)
       IN  /\ applied_sparsity' = sparsity
           /\ module_masks' = r.masks
           /\ tensors' = r.tensors
           /\ started' = (started \/ sp)
           /\ ended' = (ended \/ ep)
    /\ raised' = "none"
    /\ events' = <<>>
    /\ hist' = [Hist("update") EXCEPT
                   !.epoch = epoch,
                   !.start = start_pending(epoch, spe),
                   !.end = end_pending(epoch, spe),
                   !.again = (hist.op = "update" /\ hist.epoch = epoch)]
    /\ UNCHANGED <<module, modifier, cfg, initialized, analyzers,
                   last_logged_sparsity, inits,
                   manager>>

\* ------------------------------------------------------ optimizer_post_step
\* for mask in self._module_masks: mask.apply()
RECURSIVE ApplyLoop(_, _, _)
ApplyLoop(masks, i, tens) ==
    IF i > Len(masks) THEN tens
    ELSE LET key == <<masks[i].layer, masks[i].param>>
         IN  ApplyLoop(masks, i + 1,
                       [tens EXCEPT ![key] =
                          apply(tens[key], masks[i].mask, masks[i].enabled)])

\* mutant of PostStepTensors: only the first mask is applied
PostStepTensorsFirstOnly ==
    ApplyLoop(SubSeq(module_masks, 1, 1), 1, tensors)

\* mutant of PostStepTensors: the masks are applied whether enabled or not
PostStepTensorsIgnoreEnabled ==
    ApplyLoop([i \in DOMAIN module_masks |->
                 [module_masks[i] EXCEPT !.enabled = TRUE]], 1, tensors)

PostStepTensors == ApplyLoop(module_masks, 1, tensors)

OptimizerPostStep ==
    /\ modifier = "live"
    /\ initialized
    /\ tensors' = PostStepTensors
    /\ raised' = "none"
    /\ events' = <<>>
    /\ hist' = [Hist("optimizer_post_step") EXCEPT !.rezeroed = (tensors' # tensors)]
    /\ UNCHANGED <<module, modifier, cfg, initialized, started, ended, module_masks,
                   analyzers, applied_sparsity, last_logged_sparsity, inits,
                   manager>>

\* -------------------------------------------------- the optimizer's step
\* the optimizer (or anything else outside the modifier) writes one element
\* of one parameter tensor
Mutate(key, j, v) ==
    /\ modifier = "live"
    /\ initialized
    /\ tensors[key][j] # v
    /\ tensors' = [tensors EXCEPT ![key][j] = v]
    /\ events' = <<>>
    /\ hist' = Hist("mutate")
    /\ UNCHANGED <<module, modifier, raised, cfg, initialized, started, ended,
                   module_masks, analyzers, applied_sparsity,
                   last_logged_sparsity, inits,
                   manager>>

\* ---------------------------------------------------------------- log_update
Loggers == <<"python", "tensorboard">>

\* analyzer.param_sparsity: the fraction of exactly-zero elements
param_sparsity(w) == Rat(Cardinality({j \in DOMAIN w : w[j] = 0}), Len(w))

\* mutant of LogStep: the step rate is never used
LogStepNoRate(epoch, spe) == Round(epoch, TicksPerEpoch)

\* _log_sparsity(analyzers, loggers, epoch, steps_per_epoch)
LogStep(epoch, spe) ==
    IF spe <= 0 THEN Round(epoch, TicksPerEpoch)
    ELSE Round(epoch * spe, TicksPerEpoch)

\* mutant of log_sparsity: only the first logger is written to
log_sparsityFirstLogger(epoch, spe) ==
    [k \in 1..Len(analyzers) |->
       [logger |-> Loggers[1],
        tag |-> <<"Modifier KS", analyzers[k].name, analyzers[k].param>>,
        value |-> param_sparsity(tensors[<<analyzers[k].layer, analyzers[k].param>>]),
        step |-> LogStep(epoch, spe)]]

log_sparsity(epoch, spe) ==
    LET n == Len(analyzers)
    IN  [k \in 1..(Len(Loggers) * n) |->
           LET lg == Loggers[((k - 1) \div n) + 1]
               an == analyzers[((k - 1) % n) + 1]
           IN  [logger |-> lg,
                tag |-> <<"Modifier KS", an.name, an.param>>,
                value |-> param_sparsity(tensors[<<an.layer, an.param>>]),
                step |-> LogStep(epoch, spe)]]

LogUpdate(epoch, spe) ==
    /\ modifier = "live"
    /\ initialized
    /\ IF applied_sparsity # last_logged_sparsity
       THEN /\ last_logged_sparsity' = applied_sparsity
            /\ events' = log_sparsity(epoch, spe)
       ELSE /\ last_logged_sparsity' = last_logged_sparsity
            /\ events' = <<>>
    /\ raised' = "none"
    /\ hist' = [Hist("log_update") EXCEPT !.epoch = epoch, !.spe = spe]
    /\ UNCHANGED <<module, modifier, cfg, initialized, started, ended, module_masks,
                   analyzers, applied_sparsity, tensors, inits,
                   manager>>

\* ------------------------------------------------------------------ inputs
Ticks == 0..MaxTick
StepRates == {0, 1, 2}

BaseArgs ==
    [param |-> "weight", layers |-> ALL_TOKEN, init_sparsity |-> <<0, 1>>,
     final_sparsity |-> <<2, 3>>, start_epoch |-> 1, end_epoch |-> 3,
     update_frequency |-> 1, leave_enabled |-> TRUE, inter_func |-> "linear",
     param_strict |-> TRUE, init_float |-> TRUE, final_float |-> TRUE]

\* the schedules the lifecycle is run under
LifecycleArgs ==
    { BaseArgs,
      [BaseArgs EXCEPT !.inter_func = "cubic", !.init_sparsity = <<1, 3>>,
                       !.final_sparsity = <<1, 1>>, !.leave_enabled = FALSE],
      [BaseArgs EXCEPT !.inter_func = "inverse_cubic", !.start_epoch = 2,
                       !.end_epoch = 2, !.init_sparsity = <<1, 3>>,
                       !.leave_enabled = FALSE, !.layers = <<"conv1">>] }

ConstructStep == \E a \in LifecycleArgs : Construct(a)
InitializeOnce == inits = 0 /\ Initialize
UpdateStep == \E epoch \in Ticks, spe \in StepRates : Update(epoch, spe)
MutateStep ==
    \E key \in TensorKeys(module) :
        \E j \in 1..TensorSize(key), v \in WeightVals : Mutate(key, j, v)
\* log_update at half an epoch without a step rate, and at one and a half
\* epochs with one and with two steps to the epoch
LogInputs ==
    {<<TicksPerEpoch \div 2, 0>>, <<TicksPerEpoch + TicksPerEpoch \div 2, 1>>,
     <<TicksPerEpoch + TicksPerEpoch \div 2, 2>>}

LogUpdateStep == \E in \in LogInputs : LogUpdate(in[1], in[2])

\* the training loop: one modifier, initialised once, then stepped
Next ==
    \/ ConstructStep
    \/ InitializeOnce
    \/ UpdateStep
    \/ OptimizerPostStep
    \/ MutateStep
    \/ LogUpdateStep

Spec == Init /\ [][Next]_vars

\* ------------------------------------------- construction and initialisation
\* sparsity arguments with their Python type: <<value, is a float>>
SparsityArgs ==
    {<<<<-1, 3>>, TRUE>>, <<<<0, 1>>, TRUE>>, <<<<1, 3>>, TRUE>>,
     <<<<1, 1>>, TRUE>>, <<<<4, 3>>, TRUE>>, <<<<0, 1>>, FALSE>>,
     <<<<2, 1>>, FALSE>>}

LayerSelections ==
    {ALL_TOKEN, <<"conv1">>, <<"fc">>, <<"conv1", "fc">>, <<"fc", "conv1">>,
     <<"fc", "conv1", "fc">>}

\* constructor arguments, valid and invalid: every schedule and sparsity
\* setting on the default selection, every selection on the default schedule
InitArgs ==
    { [BaseArgs EXCEPT !.start_epoch = se, !.end_epoch = ee,
                       !.init_sparsity = i[1], !.init_float = i[2],
                       !.final_sparsity = f[1], !.final_float = f[2],
                       !.inter_func = fn] :
        se \in {-1, 0, 1}, ee \in {0, 1, 3}, i \in SparsityArgs,
        f \in SparsityArgs,
        fn \in {"linear", "cubic", "inverse_cubic", "quadratic"} }
    \cup
    { [BaseArgs EXCEPT !.param = p, !.layers = ls, !.param_strict = st] :
        p \in {"weight", "bias"}, ls \in LayerSelections, st \in BOOLEAN }

ConstructAny == \E a \in InitArgs : Construct(a)
InitializeStep == inits < MaxInits /\ Initialize

NextInit ==
    \/ ConstructAny
    \/ InitializeStep

SpecInit == InitWith("biased") /\ [][NextInit]_vars

\* ------------------------------------------------- the 100-weight scenario
\* init_sparsity 0.0, final_sparsity 0.8, start_epoch 0, end_epoch 10,
\* linear, leave_enabled true
ScenarioArgs ==
    [BaseArgs EXCEPT !.init_sparsity = <<0, 1>>, !.final_sparsity = <<4, 5>>,
                     !.start_epoch = 0, !.end_epoch = 10 * TicksPerEpoch]

\* epochs 0, 5, 5 and a tick, 10 and 15
ScenarioEpochs ==
    {0, 5 * TicksPerEpoch, 5 * TicksPerEpoch + 1, 10 * TicksPerEpoch,
     15 * TicksPerEpoch}

\* the weight the optimizer moves in the wide layer
ScenarioPositions == {1}

ConstructScenario ==
    \/ module = "net" /\ ConstructStep
    \/ module = "wide" /\ Construct(ScenarioArgs)

UpdateScenario ==
    \/ module = "net" /\ UpdateStep
    \/ module = "wide" /\ \E epoch \in ScenarioEpochs : Update(epoch, 1)

MutateScenario ==
    \/ module = "net" /\ MutateStep
    \/ module = "wide" /\ \E j \in ScenarioPositions, v \in WeightVals :
                              Mutate(<<"dense", "weight">>, j, v)

NextScenario ==
    \/ ConstructScenario
    \/ InitializeOnce
    \/ UpdateScenario
    \/ OptimizerPostStep
    \/ MutateScenario

SpecScenario == (InitWith("net") \/ InitWith("wide")) /\ [][NextScenario]_vars

\* -------------------------------------------------------------- logging
\* steps_per_epoch as the training loop passes it: unknown (negative or
\* zero), one and three steps to the epoch
StepRatesLog == {-1, 0, 1, 3}

UpdateLog == \E epoch \in Ticks : Update(epoch, 0)
LogAnyStep == \E epoch \in Ticks, spe \in StepRatesLog : LogUpdate(epoch, spe)

NextLog ==
    \/ ConstructStep
    \/ InitializeOnce
    \/ UpdateLog
    \/ LogAnyStep

SpecLog == Init /\ [][NextLog]_vars

\* ------------------------------------------------ masks on any weights
\* the two-layer network with any weights to start from
InitAnyWeights ==
    /\ module = "net"
    /\ modifier = "absent"
    /\ raised = "none"
    /\ cfg = NoCfg
    /\ initialized = FALSE
    /\ started = FALSE
    /\ ended = FALSE
    /\ module_masks = <<>>
    /\ analyzers = NoAnalyzers
    /\ applied_sparsity = None
    /\ last_logged_sparsity = None
    /\ tensors \in {f \in [TensorKeys("net") ->
                             UNION {[1..n -> WeightVals] : n \in 1..NumElems}] :
                      \A key \in TensorKeys("net") : Len(f[key]) = TensorSize(key)}
    /\ events = <<>>
    /\ inits = 0
    /\ hist = NoHist
    /\ manager = NoManager

\* the weights stay as the modifier leaves them: no optimizer step
NextMask ==
    \/ ConstructStep
    \/ InitializeOnce
    \/ UpdateLog

SpecMask == InitAnyWeights /\ [][NextMask]_vars

\* ------------------------------------------------- the schedule's curve
\* schedule windows <<start_epoch, end_epoch>>: two with a midpoint on a
\* tick, one empty
Windows == {<<1, 3>>, <<0, 4>>, <<2, 2>>}

\* <<init_sparsity, final_sparsity>>: rising, constant and falling
SparsityPairs ==
    {<<<<0, 1>>, <<1, 1>>>>, <<<<1, 3>>, <<1, 1>>>>, <<<<0, 1>>, <<2, 3>>>>,
     <<<<1, 2>>, <<1, 2>>>>, <<<<1, 1>>, <<0, 1>>>>}

CurveArgs ==
    { [BaseArgs EXCEPT !.inter_func = fn, !.start_epoch = w[1],
                       !.end_epoch = w[2], !.init_sparsity = s[1],
                       !.final_sparsity = s[2]] :
        fn \in INTERPOLATION_FUNCS, w \in Windows, s \in SparsityPairs }

ConstructCurve == \E a \in CurveArgs : Construct(a)
UpdateCurve == \E epoch \in Ticks : Update(epoch, 0)

NextCurve ==
    \/ ConstructCurve
    \/ InitializeOnce
    \/ UpdateCurve

SpecCurve == Init /\ [][NextCurve]_vars

\* ------------------------------------------------------ the training loop
\* update_frequency in ticks: every tick, every third tick, every step (-1)
UpdateFrequencies == {1, 3, -1}

TrainArgs ==
    { [a EXCEPT !.update_frequency = f] :
        a \in CurveArgs, f \in UpdateFrequencies }

\* the epoch of the last update(), 0 before the first
LastUpdateEpoch == IF hist.op = "update" THEN hist.epoch ELSE 0

\* an update() has been called at or after end_epoch
ReachedEnd == hist.op = "update" /\ hist.epoch >= cfg.end_epoch

ConstructTrain == \E a \in TrainArgs : Construct(a)

\* the loop calls update() with epochs that never decrease; it may repeat an
\* epoch and may skip any number of ticks
UpdateTrain ==
    \E epoch \in Ticks : epoch >= LastUpdateEpoch /\ Update(epoch, 0)

\* a call of update() with a later epoch while end_epoch is not reached
UpdateTowardsEnd ==
    /\ ~ReachedEnd
    /\ \E epoch \in Ticks : epoch > LastUpdateEpoch /\ Update(epoch, 0)

NextTrain ==
    \/ ConstructTrain
    \/ InitializeOnce
    \/ UpdateTrain

\* the states in which UpdateTowardsEnd can take a step
CanAdvance ==
    /\ modifier = "live"
    /\ initialized
    /\ ~ReachedEnd
    /\ LastUpdateEpoch < MaxTick

\* the loop builds and initialises the modifier and keeps training until
\* end_epoch is reached: weak fairness of the three steps, the one of
\* UpdateTowardsEnd, WF_vars(UpdateTowardsEnd), with its enabling condition
\* written out as CanAdvance
SpecTrain ==
    /\ Init
    /\ [][NextTrain]_vars
    /\ WF_vars(ConstructTrain)
    /\ WF_vars(InitializeOnce)
    /\ ([]<>~CanAdvance \/ []<><<UpdateTowardsEnd>>_vars)

\* ------------------------------------------- ScheduledModifierManager
\* bound on the number of modifiers a manager is given
MaxMods == 3

\* what a modifier's modify() hands back as its callback: None, a list of two
\* callbacks, one tf.keras.callbacks.Callback, or an object of another type
CallbackKinds == {"None", "list", "Callback", "other"}

\* the callback object of kind kd returned by modifier id
CallbackOf(id, kd) ==
    CASE kd = "None" -> [kind |-> "None", items |-> <<>>]
      [] kd = "list" -> [kind |-> "list", items |-> <<<<id, 1>>, <<id, 2>>>>]
      [] kd = "Callback" -> [kind |-> "Callback", items |-> <<<<id, 0>>>>]
      [] kd = "other" -> [kind |-> "other", items |-> <<>>]

\* ScheduledModifierManager(modifiers): the list is kept as given, the stored
\* optimizer starts as None; id is a modifier's place in the given list, kind
\* the kind of callback its modify() hands back
ManagerConstruct(mods) ==
    /\ manager = NoManager
    /\ manager' = [state |-> "live",
                   modifiers |-> [i \in DOMAIN mods |->
                                    [id |-> i, start_epoch |-> mods[i][1],
                                     kind |-> mods[i][2]]],
                   optimizer |-> <<"None">>,
                   calls |-> <<>>,
                   returned |-> <<>>,
                   raised |-> "none"]
    /\ hist' = Hist("manager")
    /\ UNCHANGED <<module, modifier, raised, cfg, initialized, started, ended,
                   module_masks, analyzers, applied_sparsity,
                   last_logged_sparsity, tensors, events, inits>>

\* list.sort(key=lambda mod: mod.start_epoch) is stable: m goes behind every
\* element whose key is not greater
RECURSIVE InsertByStart(_, _)
InsertByStart(sorted, m) ==
    IF sorted = <<>> THEN <<m>>
    ELSE IF sorted[Len(sorted)].start_epoch <= m.start_epoch
         THEN Append(sorted, m)
         ELSE Append(InsertByStart(SubSeq(sorted, 1, Len(sorted) - 1), m),
                     sorted[Len(sorted)])

RECURSIVE SortLoop(_, _, _)
SortLoop(mods, i, acc) ==
    IF i > Len(mods) THEN acc
    ELSE SortLoop(mods, i + 1, InsertByStart(acc, mods[i]))

\* mutant of SortByStart: the list is left in the order it has
SortByStartUnsorted(mods) == mods

\* self._modifiers.sort(key=lambda mod: mod.start_epoch)
SortByStart(mods) == SortLoop(mods, 1, <<>>)

\* mutant of CollectCallback: an object of another type is dropped
CollectCallbackDropOther(st, cb) ==
    CASE cb.kind = "None" -> st
      [] cb.kind = "list" -> [st EXCEPT !.callbacks = @ \o cb.items]
      [] cb.kind = "Callback" -> [st EXCEPT !.callbacks = Append(@, cb.items[1])]
      [] OTHER -> st

\* the if / elif / else on the callback a modifier returned
CollectCallback(st, cb) ==
    CASE cb.kind = "None" -> st
      [] cb.kind = "list" -> [st EXCEPT !.callbacks = @ \o cb.items]
      [] cb.kind = "Callback" -> [st EXCEPT !.callbacks = Append(@, cb.items[1])]
      [] OTHER -> [st EXCEPT !.raised = "RuntimeError: Invalid callback type"]

\* for mod in self._modifiers: model, optimizer, callback = mod.modify(...).
\* A modifier's modify() hands back the model and the optimizer it was given,
\* wrapped by itself, and its callback.
RECURSIVE ModifyLoop(_, _, _)
ModifyLoop(mods, i, st) ==
    IF i > Len(mods) THEN st
    ELSE LET mod == mods[i]
             out == [id |-> mod.id, start_epoch |-> mod.start_epoch,
                     model_in |-> st.model, optimizer_in |-> st.optimizer,
                     model_out |-> Append(st.model, mod.id),
                     optimizer_out |-> Append(st.optimizer, mod.id),
                     callback |-> CallbackOf(mod.id, mod.kind)]
             st1 == CollectCallback(
                        [st EXCEPT !.model = out.model_out,
                                   !.optimizer = out.optimizer_out,
                                   !.calls = Append(@, out)],
                        out.callback)
         IN  IF st1.raised # "none" THEN st1
             ELSE ModifyLoop(mods, i + 1, st1)

\* manager.modify(model, optimizer, steps_per_epoch, ...)
ManagerModify(model, optimizer) ==
    /\ manager.state = "live"
    /\ LET sorted == SortByStart(manager.modifiers)
           st == ModifyLoop(sorted, 1,
                            [model |-> model, optimizer |-> optimizer,
                             callbacks |-> <<>>, calls |-> <<>>,
                             raised |-> "none"])
       IN  manager' =
             [manager EXCEPT
                !.modifiers = sorted,
                !.optimizer = IF st.raised = "none" THEN st.optimizer ELSE @,
                !.calls = st.calls,
                !.returned = IF st.raised = "none"
                             THEN <<st.model, st.optimizer, st.callbacks>>
                             ELSE <<>>,
                !.raised = st.raised]
    /\ hist' = Hist("modify")
    /\ UNCHANGED <<module, modifier, raised, cfg, initialized, started, ended,
                   module_masks, analyzers, applied_sparsity,
                   last_logged_sparsity, tensors, events, inits>>

\* start epochs of the modifiers handed to a manager
StartEpochs == {0, 1}

\* the lists of modifiers a manager is given: <<start_epoch, callback kind>>
ModifierLists ==
    UNION {[1..n -> StartEpochs \X CallbackKinds] : n \in 0..MaxMods}

Optimizers == {<<"sgd">>, <<"adam">>}

ManagerConstructStep == \E mods \in ModifierLists : ManagerConstruct(mods)

ManagerModifyStep ==
    \E optimizer \in Optimizers : ManagerModify(<<"model">>, optimizer)

NextManager ==
    \/ ManagerConstructStep
    \/ ManagerModifyStep

SpecManager == Init /\ [][NextManager]_vars

\* ------------------------------------------------------------------ claims
Targets == DOMAIN module_masks
KeyOf(m) == <<m.layer, m.param>>
TensorOf(m) == tensors[KeyOf(m)]
MaskedCount(m) == Cardinality(m.mask)
CountAt(m, sparsity) == MaskCount(sparsity, Len(TensorOf(m)))

\* C1: after optimizer_post_step() every element at a masked position of
\* every enabled target is exactly zero, whatever the optimizer wrote since
\* the last update().
C1_PostStepZeroesMasked ==
    hist.op = "optimizer_post_step" =>
        \A i \in Targets :
            module_masks[i].enabled =>
                \A j \in module_masks[i].mask : TensorOf(module_masks[i])[j] = 0

\* an optimizer_post_step() that had to zero a weight the optimizer moved,
\* with two enabled targets holding non-empty masks
C1_Witness ==
    /\ hist.op = "optimizer_post_step"
    /\ hist.rezeroed
    /\ Len(module_masks) = 2
    /\ \A i \in Targets : module_masks[i].enabled /\ module_masks[i].mask # {}

\* C2: every update(), at any epoch and whatever the targets' enabled flags,
\* leaves applied_sparsity = interpolate(epoch, start_epoch, end_epoch,
\* init_sparsity, final_sparsity, inter_func) and every target's mask set
\* from that sparsity.
C2_UpdateRecomputes ==
    hist.op = "update" =>
        /\ applied_sparsity =
              interpolate(hist.epoch, cfg.start_epoch, cfg.end_epoch,
                          cfg.init_sparsity, cfg.final_sparsity, cfg.inter_func)
        /\ \A i \in Targets :
              module_masks[i].mask =
                 mask_from_sparsity(TensorOf(module_masks[i]), applied_sparsity)

\* an update() past end_epoch, after the targets were disabled, that left a
\* non-empty mask on a disabled target
C2_Witness ==
    /\ hist.op = "update"
    /\ hist.epoch > cfg.end_epoch
    /\ ~hist.end
    /\ Targets # {}
    /\ \A i \in Targets : ~module_masks[i].enabled /\ module_masks[i].mask # {}

\* C3 as claimed: an update() before start_epoch leaves no element masked,
\* and one at or after end_epoch leaves final_sparsity masked.
C3_IdleMaskZeroBeforeStart ==
    hist.op = "update" =>
        /\ hist.epoch < cfg.start_epoch =>
              \A i \in Targets : module_masks[i].mask = {}
        /\ hist.epoch >= cfg.end_epoch =>
              \A i \in Targets :
                 MaskedCount(module_masks[i]) =
                    CountAt(module_masks[i], cfg.final_sparsity)

\* C3 amended: an update() before start_epoch leaves init_sparsity masked
\* (applied_sparsity = init_sparsity), and one at or after end_epoch leaves
\* final_sparsity masked (applied_sparsity = final_sparsity).
C3_IdleMask ==
    hist.op = "update" =>
        /\ hist.epoch < cfg.start_epoch =>
              /\ applied_sparsity = cfg.init_sparsity
              /\ \A i \in Targets :
                    MaskedCount(module_masks[i]) =
                       CountAt(module_masks[i], cfg.init_sparsity)
        /\ hist.epoch >= cfg.end_epoch =>
              /\ applied_sparsity = cfg.final_sparsity
              /\ \A i \in Targets :
                    MaskedCount(module_masks[i]) =
                       CountAt(module_masks[i], cfg.final_sparsity)

\* an update() before start_epoch that masked an element
C3_Witness ==
    /\ hist.op = "update"
    /\ hist.epoch < cfg.start_epoch
    /\ \E i \in Targets : module_masks[i].mask # {}

\* C4: the update() that takes the start edge returns with every target
\* enabled, unless it also takes the end edge with leave_enabled false.
C4_StartEdgeEnables ==
    (hist.op = "update" /\ hist.start /\ ~(hist.end /\ ~cfg.leave_enabled)) =>
        \A i \in Targets : module_masks[i].enabled

\* a start-edge update() that is not an end edge, two targets enabled
C4_Witness ==
    /\ hist.op = "update"
    /\ hist.start
    /\ ~hist.end
    /\ Len(module_masks) = 2
    /\ \A i \in Targets : module_masks[i].enabled

\* C5: the update() that takes the end edge with leave_enabled false returns
\* with every target disabled and final_sparsity in the masks; from then on
\* the targets stay disabled, optimizer_post_step() changes no tensor, and
\* the stored masks still hold the applied sparsity.
C5_EndEdgeDisables ==
    /\ (hist.op = "update" /\ hist.end /\ ~cfg.leave_enabled) =>
          /\ applied_sparsity = cfg.final_sparsity
          /\ \A i \in Targets :
                /\ ~module_masks[i].enabled
                /\ MaskedCount(module_masks[i]) =
                      CountAt(module_masks[i], cfg.final_sparsity)
    /\ (ended /\ ~cfg.leave_enabled) =>
          /\ \A i \in Targets :
                /\ ~module_masks[i].enabled
                /\ MaskedCount(module_masks[i]) =
                      CountAt(module_masks[i], applied_sparsity)
          /\ hist.op = "optimizer_post_step" => ~hist.rezeroed

\* an optimizer_post_step() after the end edge that left a non-zero weight
\* at a masked position of a disabled target
C5_Witness ==
    /\ hist.op = "optimizer_post_step"
    /\ ended
    /\ ~cfg.leave_enabled
    /\ applied_sparsity = cfg.final_sparsity
    /\ \E i \in Targets :
          /\ ~module_masks[i].enabled
          /\ \E j \in module_masks[i].mask : TensorOf(module_masks[i])[j] # 0

\* C6: update(), log_update() and optimizer_post_step() never disable an
\* enabled target when leave_enabled is true, and never enable a target
\* again once the end edge has disabled it when leave_enabled is false.
C6_LifecycleTerminal ==
    [][ hist'.op \in {"update", "log_update", "optimizer_post_step"} =>
          \A i \in Targets :
             /\ (cfg.leave_enabled /\ module_masks[i].enabled) =>
                    module_masks'[i].enabled
             /\ (~cfg.leave_enabled /\ ended /\ ~module_masks[i].enabled) =>
                    ~module_masks'[i].enabled ]_vars

\* an update() after the end edge, inside the schedule window again, with
\* the targets still disabled
C6_Witness ==
    /\ hist.op = "update"
    /\ ended
    /\ ~hist.end
    /\ ~cfg.leave_enabled
    /\ hist.epoch >= cfg.start_epoch
    /\ Targets # {}
    /\ \A i \in Targets : ~module_masks[i].enabled

\* C7: after update(epoch) every target has round(applied_sparsity *
\* element_count) masked elements; under the schedule 0.0 -> 0.8 over epochs
\* 0..10, linear, on 100 weights, that is 0 at epoch 0, 40 at epoch 5, 80 at
\* epoch 10 and 80 at epoch 15.
C7_MaskedCounts ==
    hist.op = "update" =>
        \A i \in Targets :
            /\ MaskedCount(module_masks[i]) =
                  CountAt(module_masks[i], applied_sparsity)
            /\ module = "wide" =>
                  /\ Len(TensorOf(module_masks[i])) = 100
                  /\ hist.epoch = 0 => MaskedCount(module_masks[i]) = 0
                  /\ hist.epoch = 5 * TicksPerEpoch =>
                        MaskedCount(module_masks[i]) = 40
                  /\ hist.epoch = 10 * TicksPerEpoch =>
                        MaskedCount(module_masks[i]) = 80
                  /\ hist.epoch = 15 * TicksPerEpoch =>
                        MaskedCount(module_masks[i]) = 80

\* the update at epoch 5 of the scenario, 40 of the 100 weights masked and
\* zeroed
C7_Witness ==
    /\ hist.op = "update"
    /\ module = "wide"
    /\ cfg = ScenarioArgs
    /\ hist.epoch = 5 * TicksPerEpoch
    /\ Len(module_masks) = 1
    /\ MaskedCount(module_masks[1]) = 40
    /\ \A j \in module_masks[1].mask : TensorOf(module_masks[1])[j] = 0

OutOfRange(p) == p[1] < 0 \/ p[1] > p[2]

\* C8: construction fails, leaving no usable modifier, whenever start_epoch
\* < 0, end_epoch < start_epoch, a sparsity is outside [0, 1] or inter_func
\* is not a recognized curve; and construction registers nothing: until
\* initialize() the mask list is empty and the analyzers are unset.
C8_ConstructValidates ==
    /\ ( /\ hist.op = "construct"
         /\ \/ cfg.start_epoch < 0
            \/ cfg.end_epoch < cfg.start_epoch
            \/ OutOfRange(cfg.init_sparsity)
            \/ OutOfRange(cfg.final_sparsity)
            \/ cfg.inter_func \notin {"linear", "cubic", "inverse_cubic"} )
       => (modifier = "failed" /\ raised # "none")
    /\ modifier = "failed" => inits = 0
    /\ inits = 0 => (module_masks = <<>> /\ analyzers = NoAnalyzers)

\* a construction rejected only for its final_sparsity
C8_Witness ==
    /\ hist.op = "construct"
    /\ modifier = "failed"
    /\ raised = "ValueError: final_sparsity"
    /\ cfg.start_epoch >= 0
    /\ cfg.end_epoch >= cfg.start_epoch
    /\ ~OutOfRange(cfg.init_sparsity)
    /\ OutOfRange(cfg.final_sparsity)
    /\ cfg.inter_func \in {"linear", "cubic", "inverse_cubic"}
    /\ module_masks = <<>>

SomeLayerLacksParam ==
    \E i \in DOMAIN ResolvedLayers(cfg) :
        ~HasParam(ResolvedLayers(cfg)[i], cfg.param)

C10_TargetsPairedWithAnalyzers ==
    initialized =>
        /\ Len(module_masks) = Len(analyzers)
        /\ \A i \in Targets :
              /\ module_masks[i].layer = analyzers[i].layer
              /\ module_masks[i].param = analyzers[i].param
        /\ \A k \in DOMAIN ResolvedLayers(cfg) :
              LET layer == ResolvedLayers(cfg)[k]
              IN  Cardinality({i \in Targets : module_masks[i].layer = layer}) =
                     (IF HasParam(layer, cfg.param) THEN 1 ELSE 0)

\* the log_scalar calls of the last log_update made to logger lg for analyzer an
EventsFor(evs, lg, an) ==
    {k \in DOMAIN evs :
        /\ evs[k].logger = lg
        /\ evs[k].tag = <<"Modifier KS", an.name, an.param>>}

\* C11: log_update() emits exactly when applied_sparsity differs from
\* last_logged_sparsity at the call: then one scalar per (logger, analyzer)
\* pair and last_logged_sparsity becomes applied_sparsity; otherwise nothing
\* is emitted and last_logged_sparsity stays.  Hence a log_update() right
\* after a log_update() emits nothing, and a call that is not update() never
\* makes the two sparsities differ again.
C11_LogUpdateDedup ==
    [][ /\ hist'.op = "log_update" =>
              IF applied_sparsity # last_logged_sparsity
              THEN /\ Len(events') = Len(Loggers) * Len(analyzers)
                   /\ events' # <<>>
                   /\ \A l \in DOMAIN Loggers, a \in DOMAIN analyzers :
                         Cardinality(EventsFor(events', Loggers[l], analyzers[a])) = 1
                   /\ last_logged_sparsity' = applied_sparsity
              ELSE /\ events' = <<>>
                   /\ last_logged_sparsity' = last_logged_sparsity
        /\ (hist.op = "log_update" /\ hist'.op = "log_update") => events' = <<>>
        /\ ( /\ hist'.op \in {"log_update", "optimizer_post_step", "mutate"}
             /\ applied_sparsity = last_logged_sparsity )
              => applied_sparsity' = last_logged_sparsity' ]_vars

\* a log_update() that emitted nothing because an earlier one had logged the
\* applied sparsity
C11_Witness ==
    /\ hist.op = "log_update"
    /\ events = <<>>
    /\ applied_sparsity # None
    /\ last_logged_sparsity = applied_sparsity
    /\ Len(analyzers) = 2

\* call i comes before call j in ascending start_epoch order, modifiers of
\* equal start_epoch in the order they were given
InOrder(a, b) ==
    \/ a.start_epoch < b.start_epoch
    \/ a.start_epoch = b.start_epoch /\ a.id < b.id

\* C12: modify() invokes the modifiers in ascending start_epoch order
\* whatever the order they were given in, equal start_epochs in given order,
\* each modifier receiving the model and optimizer the one before returned;
\* a modifier not invoked (after a failure) comes later in that order.
C12_ModifyInStartOrder ==
    hist.op = "modify" =>
        LET c == manager.calls
            called == {c[k].id : k \in DOMAIN c}
        IN  /\ \A i, j \in DOMAIN c : i < j => InOrder(c[i], c[j])
            /\ manager.raised = "none" => called = DOMAIN manager.modifiers
            /\ \A k \in DOMAIN c, m \in DOMAIN manager.modifiers :
                  manager.modifiers[m].id \notin called =>
                     InOrder(c[k], manager.modifiers[m])
            /\ c # <<>> => (c[1].model_in = <<"model">> /\ c[1].optimizer_in \in Optimizers)
            /\ \A k \in DOMAIN c :
                  k > 1 => /\ c[k].model_in = c[k - 1].model_out
                           /\ c[k].optimizer_in = c[k - 1].optimizer_out

\* three modifiers given as start epochs 1, 0, 0 and invoked second, third,
\* first
C12_Witness ==
    /\ hist.op = "modify"
    /\ manager.raised = "none"
    /\ Len(manager.calls) = 3
    /\ manager.calls[1].id = 2
    /\ manager.calls[2].id = 3
    /\ manager.calls[3].id = 1
    /\ manager.calls[3].model_in = <<"model", 2, 3>>

\* the callbacks the calls from the k-th on contribute
RECURSIVE CallbacksFrom(_, _)
CallbacksFrom(c, k) ==
    IF k > Len(c) THEN <<>>
    ELSE (IF c[k].callback.kind \in {"list", "Callback"}
          THEN c[k].callback.items ELSE <<>>) \o CallbacksFrom(c, k + 1)

\* C13: modify() raises "Invalid callback type" at the first modifier whose
\* callback is neither None, a list nor a Callback: no later modifier is
\* invoked, nothing is returned and the stored optimizer keeps its value;
\* otherwise it returns the callbacks in invocation order (None skipped,
\* lists concatenated, single callbacks appended) and stores the optimizer.
C13_InvalidCallback ==
    [][ hist'.op = "modify" =>
          LET c == manager'.calls
              n == Len(c)
          IN  IF \E m \in DOMAIN manager.modifiers :
                     manager.modifiers[m].kind = "other"
              THEN /\ manager'.raised = "RuntimeError: Invalid callback type"
                   /\ manager'.returned = <<>>
                   /\ manager'.optimizer = manager.optimizer
                   /\ n > 0
                   /\ c[n].callback.kind = "other"
                   /\ \A k \in 1..(n - 1) : c[k].callback.kind # "other"
              ELSE /\ manager'.raised = "none"
                   /\ n = Len(manager.modifiers)
                   /\ manager'.returned[3] = CallbacksFrom(c, 1)
                   /\ manager'.optimizer = manager'.returned[2]
                   /\ n > 0 => /\ manager'.returned[1] = c[n].model_out
                               /\ manager'.returned[2] = c[n].optimizer_out
                   /\ n = 0 => /\ manager'.returned[1] = <<"model">>
                               /\ manager'.returned[2] \in Optimizers ]_vars

\* a modify() that failed at the second of three modifiers, after a first
\* that returned a list
C13_Witness ==
    /\ hist.op = "modify"
    /\ manager.raised = "RuntimeError: Invalid callback type"
    /\ Len(manager.modifiers) = 3
    /\ Len(manager.calls) = 2
    /\ manager.calls[1].callback.kind = "list"
    /\ manager.calls[2].callback.kind = "other"
    /\ manager.optimizer = <<"None">>

\* y lies between a and b, whichever is larger
Between(y, a, b) ==
    \/ RLeq(a, y) /\ RLeq(y, b)
    \/ RLeq(b, y) /\ RLeq(y, a)

\* the sparsity at the fraction f of the way from init_sparsity to
\* final_sparsity
AtFraction(f) ==
    RAdd(cfg.init_sparsity, RMul(f, RSub(cfg.final_sparsity, cfg.init_sparsity)))

MidpointFraction ==
    CASE cfg.inter_func = "linear" -> <<1, 2>>
      [] cfg.inter_func = "cubic" -> <<1, 8>>
      [] cfg.inter_func = "inverse_cubic" -> <<7, 8>>

IsRounded(s, n, d) ==
    \/ 2 * Abs(s * d - n) < d
    \/ 2 * Abs(s * d - n) = d /\ s % 2 = 0

\* C15: every event of a log_update(epoch, steps_per_epoch) carries the step
\* round(epoch) when steps_per_epoch <= 0 and round(epoch * steps_per_epoch)
\* otherwise, the same step on all events of the call.
C15_LogStepIndex ==
    hist.op = "log_update" =>
        \A k \in DOMAIN events :
            /\ events[k].step = events[1].step
            /\ IF hist.spe <= 0
               THEN IsRounded(events[k].step, hist.epoch, TicksPerEpoch)
               ELSE IsRounded(events[k].step, hist.epoch * hist.spe, TicksPerEpoch)

\* a log_update() at three steps to the epoch whose epoch * steps_per_epoch
\* lies halfway between two steps and was rounded down to the even one
C15_Witness ==
    /\ hist.op = "log_update"
    /\ Len(events) = 4
    /\ hist.spe = 3
    /\ 2 * ((hist.epoch * hist.spe) % TicksPerEpoch) = TicksPerEpoch
    /\ events[4].step * TicksPerEpoch < hist.epoch * hist.spe
    /\ events[4].step % 2 = 0

\* C16: last_logged_sparsity changes only in log_update(); log_update()
\* leaves applied_sparsity, the masks with their enabled flags, the
\* analyzers and the tensors as they are; optimizer_post_step() leaves
\* applied_sparsity, last_logged_sparsity and the masks with their enabled
\* flags as they are and writes only zeros, only at masked positions of
\* enabled targets.
C16_LifecycleFrames ==
    [][ /\ last_logged_sparsity' # last_logged_sparsity => hist'.op = "log_update"
        /\ hist'.op = "log_update" =>
              /\ applied_sparsity' = applied_sparsity
              /\ module_masks' = module_masks
              /\ analyzers' = analyzers
              /\ tensors' = tensors
        /\ hist'.op = "optimizer_post_step" =>
              /\ applied_sparsity' = applied_sparsity
              /\ last_logged_sparsity' = last_logged_sparsity
              /\ module_masks' = module_masks
              /\ \A key \in DOMAIN tensors :
                    \A j \in DOMAIN tensors[key] :
                       tensors'[key][j] # tensors[key][j] =>
                          /\ tensors'[key][j] = 0
                          /\ \E i \in Targets :
                                /\ KeyOf(module_masks[i]) = key
                                /\ module_masks[i].enabled
                                /\ j \in module_masks[i].mask ]_vars

\* an optimizer_post_step() that zeroed a moved weight and left a non-zero
\* weight at an unmasked position, the applied sparsity not yet logged
C16_Witness ==
    /\ hist.op = "optimizer_post_step"
    /\ hist.rezeroed
    /\ applied_sparsity # last_logged_sparsity
    /\ \E i \in Targets :
          \E j \in DOMAIN TensorOf(module_masks[i]) :
             j \notin module_masks[i].mask /\ TensorOf(module_masks[i])[j] # 0

\* sparsities to compare masks at
SparsityLevels == {<<0, 1>>, <<1, 3>>, <<1, 2>>, <<2, 3>>, <<1, 1>>}

C18_UpdateIdempotent ==
    [][ hist'.op = "update" =>
          /\ \A i \in DOMAIN module_masks' :
                mask_from_sparsity(tensors'[KeyOf(module_masks'[i])],
                                   applied_sparsity')
                   = module_masks'[i].mask
          /\ (hist.op = "update" /\ hist'.epoch = hist.epoch) =>
                /\ applied_sparsity' = applied_sparsity
                /\ \A i \in Targets : module_masks'[i].mask = module_masks[i].mask
                /\ tensors' = tensors ]_vars

\* a second update() at the same epoch inside the window, on weights with a
\* tie at the boundary of the mask: one of two equal weights is masked
C18_Witness ==
    /\ hist.op = "update"
    /\ hist.again
    /\ hist.epoch > cfg.start_epoch
    /\ hist.epoch < cfg.end_epoch
    /\ \E i \in Targets :
          \E j, k \in DOMAIN TensorOf(module_masks[i]) :
             /\ j \in module_masks[i].mask
             /\ k \notin module_masks[i].mask
             /\ Abs(TensorOf(module_masks[i])[j]) = Abs(TensorOf(module_masks[i])[k])

\* C19: with leave_enabled false, an update() that takes the start edge and
\* the end edge in one call returns with every target disabled; under a
\* schedule whose start_epoch equals its end_epoch no target is ever enabled
\* when a call returns; and once the end edge is taken every later call
\* leaves the targets disabled and optimizer_post_step() changes no weight.
C19_BothEdgesInOneUpdate ==
    [][ /\ ( /\ hist'.op = "update"
             /\ hist'.start
             /\ hist'.end
             /\ ~cfg.leave_enabled )
              => \A i \in DOMAIN module_masks' : ~module_masks'[i].enabled
        /\ (cfg'.start_epoch = cfg'.end_epoch /\ ~cfg'.leave_enabled)
              => /\ \A i \in DOMAIN module_masks' : ~module_masks'[i].enabled
                 /\ started' = ended'
        /\ ( /\ ended
             /\ ~cfg.leave_enabled
             /\ hist'.op \in {"update", "log_update", "optimizer_post_step"} )
              => /\ \A i \in DOMAIN module_masks' : ~module_masks'[i].enabled
                 /\ hist'.op = "optimizer_post_step" => tensors' = tensors ]_vars

\* an optimizer_post_step() under a schedule with start_epoch = end_epoch,
\* after the update() that took both edges: a masked weight is still non-zero
C19_Witness ==
    /\ hist.op = "optimizer_post_step"
    /\ cfg.start_epoch = cfg.end_epoch
    /\ ~cfg.leave_enabled
    /\ started
    /\ ended
    /\ applied_sparsity = cfg.final_sparsity
    /\ \A i \in Targets : ~module_masks[i].enabled
    /\ \E i \in Targets :
          \E j \in module_masks[i].mask : TensorOf(module_masks[i])[j] # 0

\* C20: under a training loop that calls update() with epochs that never
\* decrease and reach end_epoch, every update() at or after end_epoch leaves
\* applied_sparsity = final_sparsity, and from some call on applied_sparsity
\* is final_sparsity for good; whatever update_frequency is and however many
\* ticks the calls skipped.
C20_ScheduleCompletes ==
    /\ [][ (hist'.op = "update" /\ hist'.epoch >= cfg.end_epoch)
              => applied_sparsity' = cfg.final_sparsity ]_vars
    /\ <>[](ReachedEnd /\ applied_sparsity = cfg.final_sparsity)

\* the first update() arrives past end_epoch of a schedule that rises from
\* init_sparsity to a different final_sparsity, update_frequency being 3
C20_Witness ==
    /\ hist.op = "update"
    /\ hist.start
    /\ hist.end
    /\ hist.epoch > cfg.end_epoch
    /\ cfg.start_epoch < cfg.end_epoch
    /\ cfg.update_frequency = 3
    /\ cfg.init_sparsity # cfg.final_sparsity
    /\ applied_sparsity = cfg.final_sparsity

====
